---- MODULE Spec2Model ----
(***************************************************************************)
(* The Gemini/MCP bridge of neels22/lang-graph: the FastAPI facade         *)
(* (src/backend/api_server.py) around GeminiMCPClient (src/client.py).     *)
(*                                                                         *)
(* Every request handler is a coroutine; the event loop may switch to      *)
(* another handler at each await.  A handler is modelled as a task whose   *)
(* pc names the await it is suspended in; one action runs the code from    *)
(* one await to the next.  The provider process, the MCP session and the   *)
(* language model are the environment: each awaited call either returns    *)
(* or raises, chosen nondeterministically within what the state of the     *)
(* channel allows.                                                         *)
(***************************************************************************)
EXTENDS Naturals, Sequences, FiniteSets

\* ---------------------------------------------------------------- bounds
MaxClients == 2    \* GeminiMCPClient objects ever constructed (connect calls)
MaxLedger  == 1    \* a query is only started on a Ledger shorter than this
MaxParts   == 2    \* parts in one model response

\* ------------------------------------------------------------ value sets
NoClient == 0                       \* Python None for client_instance
ClientIds == 1..MaxClients
Tasks == {1, 2}                     \* two request handlers may overlap

ToolNames == {"login", "get_products", "list_all_students", "logout"}
NoTool == "text"                    \* function_call.name of a part that carries text
PartNames == {"login", "logout", NoTool}   \* what the model may put in a part
\* One tool of a listing: what the code reads of it is name and description.
Tool(name, description) == [name |-> name, description |-> description]
\* what the provider lists
Catalogs ==
  {<<Tool("get_products", "products"), Tool("login", "log in"),
     Tool("list_all_students", "students")>>}
\* a listing in which the name login comes twice
CollidingCatalogs ==
  {<<Tool("login", "log in"), Tool("login", "log in again")>>}
QueryText == [t \in Tasks |-> <<"query", t>>]   \* what each caller asks
ToolArgs == "args"
ToolResult == "res"
ModelText == "txt"

\* lifespan: the app is "serving", its shutdown code is awaiting cleanup()
\* ("cleanup"), or it is "stopped".
VARIABLES client_instance, nclients, clients, tasks, lifespan

vars == <<client_instance, nclients, clients, tasks, lifespan>>

\* src/client.py:12-21  GeminiMCPClient.__init__
\* transport/chan are the two contexts the exit stack can hold: the stdio
\* subprocess and the ClientSession.  A context is on the stack exactly while
\* it is open ("open"/"ready").  abandoned notes that a handler working on
\* the client was cancelled while the client held something open; failed
\* that a list_tools or call_tool raised because the channel had broken.
NewClient ==
  [session |-> FALSE, transport |-> "none", chan |-> "none",
   conversation_history |-> <<>>, abandoned |-> FALSE, failed |-> FALSE]

\* A handler: the request (op), the await it is suspended in (pc), its locals
\* (self, query, mcp_tools, function_declarations, tool_name, is_connected),
\* its response (result),
\* and what an observer of the run would note about it: the client its
\* connect constructed (own), whether its query arrived with no usable
\* session (pre), the model and tool calls it has issued
\* (nModel, nCall), whether the response named a tool outside the catalog
\* (badCall), whether cleanup() raised (raised), the Ledger length a clear
\* found (seen).
IdleTask ==
  [op |-> "none", pc |-> "idle", self |-> NoClient, query |-> <<>>,
   mcp_tools |-> <<>>, function_declarations |-> <<>>,
   tool_name |-> "", is_connected |-> FALSE,
   result |-> [kind |-> "none"],
   own |-> NoClient, pre |-> FALSE,
   nModel |-> 0, nCall |-> 0, badCall |-> FALSE, raised |-> FALSE,
   seen |-> 0]

Init ==
  /\ client_instance = NoClient
  /\ nclients = 0
  /\ clients = [c \in ClientIds |-> NewClient]
  /\ tasks = [t \in Tasks |-> IdleTask]
  /\ lifespan = "serving"

\* ------------------------------------------------------------- helpers
Range(s) == {s[i] : i \in 1..Len(s)}

SeqsUpTo(S, n) == UNION {[1..k -> S] : k \in 0..n}

\* the names of the tools of a listing
Names(mcp_tools) == {mcp_tools[i].name : i \in 1..Len(mcp_tools)}

HasOpenIn(cl, c) ==
  cl[c].transport = "open" \/ cl[c].chan \in {"open", "ready"}

HasOpen(c) == HasOpenIn(clients, c)

\* A request written to the session can be answered only while the subprocess
\* and the session are both open; on a closed one the call raises.
ChannelUp(c) ==
  clients[c].transport = "open" /\ clients[c].chan \in {"open", "ready"}

\* A list_tools or call_tool sent on client c has raised: nothing of the
\* client changes; it is noted when the reason is a broken channel.
RequestRaised(c) ==
  [clients EXCEPT ![c].failed = @ \/ clients[c].chan = "broken"]

\* A handler is running while it is suspended in an await.
Running(t) == tasks[t].pc \notin {"idle", "done"}

\* A response is delivered before the event loop runs another handler.
Undelivered == \E t \in Tasks : tasks[t].pc = "done"

\* Handler t is resumed from the await named pc.
At(t, pc) == ~Undelivered /\ tasks[t].pc = pc

\* The lowest idle handler slot takes the next request, while the app serves.
FirstIdle(t) ==
  /\ lifespan = "serving"
  /\ At(t, "idle")
  /\ \A u \in Tasks : u < t => tasks[u].pc # "idle"

\* A handler that has returned (or raised) keeps its response until the
\* caller has taken it; its locals are gone.
Finished(tk, r) ==
  [IdleTask EXCEPT !.op = tk.op, !.pc = "done", !.result = r,
                   !.badCall = tk.badCall, !.nCall = tk.nCall,
                   !.nModel = tk.nModel, !.raised = tk.raised,
                   !.pre = tk.pre, !.seen = tk.seen]

\* A client object that neither the global nor a running handler refers to
\* is garbage: its fields can no longer be read.  What it acquired and never
\* released (the subprocess, the session) stays as it is.
Referenced(c, ci, tk) ==
  c = ci \/ \E t \in Tasks : tk[t].self = c \/ tk[t].own = c

Collect(cl, ci, tk) ==
  [c \in ClientIds |->
     IF Referenced(c, ci, tk) THEN cl[c]
     ELSE [cl[c] EXCEPT !.session = FALSE, !.conversation_history = <<>>]]

\* One step of handler t: its new record, the global, the clients.
Update(t, tk, ci, cl) ==
  /\ tasks' = [tasks EXCEPT ![t] = tk]
  /\ client_instance' = ci
  /\ clients' = Collect(cl, ci, [tasks EXCEPT ![t] = tk])
  /\ lifespan' = lifespan

\* src/client.py:215-217  GeminiMCPClient.cleanup: exit_stack.aclose() exits
\* every context still on the stack; self.session is left as it is.
cleanup(cl) ==
  [cl EXCEPT !.transport = IF @ = "open" THEN "closed" ELSE @,
             !.chan = IF @ \in {"open", "ready"} THEN "closed" ELSE @]

\* ------------------------------------------------------------- connect
\* src/backend/api_server.py:93-102: the except branch of the connect
\* handler, entered from any raising await, with the clients as cl.  The
\* global is read as it is now; aclose() on an empty stack returns without
\* suspending, and then the global is reset and the HTTP error raised.
ConnectExcept(t, cl) ==
  IF client_instance # NoClient /\ HasOpenIn(cl, client_instance)
    THEN Update(t, [tasks[t] EXCEPT !.pc = "c_cleanup",
                                    !.self = client_instance],
                client_instance, cl)
    ELSE Update(t, Finished(tasks[t], [kind |-> "http500"]), NoClient, cl)

\* api_server.py:66-75 and client.py:31-45: a new client replaces the global,
\* then the handler suspends while the provider process is launched.
connect_to_server_begin(t) ==
  /\ FirstIdle(t)
  /\ nclients < MaxClients
  /\ nclients' = nclients + 1
  /\ Update(t, [IdleTask EXCEPT !.op = "connect", !.pc = "c_stdio",
                                !.self = nclients + 1, !.own = nclients + 1],
            nclients + 1, clients)

\* client.py:43-54: stdio_client entered (the subprocess runs), ClientSession
\* entered and stored in self.session, initialize() sent; or one of the two
\* raises.
connect_to_server_stdio(t) ==
  /\ At(t, "c_stdio")
  /\ UNCHANGED nclients
  /\ LET c == tasks[t].self IN
     \/ Update(t, [tasks[t] EXCEPT !.pc = "c_init"], client_instance,
               [clients EXCEPT ![c].transport = "open", ![c].chan = "open",
                               ![c].session = TRUE])
     \/ \* the process cannot be launched: nothing was acquired
        ConnectExcept(t, clients)
     \/ \* the process runs but entering ClientSession raises
        ConnectExcept(t, [clients EXCEPT ![c].transport = "open"])

\* client.py:54-57: the handshake reply; on success list_tools() is sent.
connect_to_server_init(t) ==
  /\ At(t, "c_init")
  /\ UNCHANGED nclients
  /\ LET c == tasks[t].self IN
     \/ /\ ChannelUp(c) /\ clients[c].chan = "open"
        /\ Update(t, [tasks[t] EXCEPT !.pc = "c_list"], client_instance,
                  [clients EXCEPT ![c].chan = "ready"])
     \/ ConnectExcept(t, clients)

\* client.py:57-61 and api_server.py:78-85: the client's own listing returns,
\* then the handler reads the global again and lists through it.
connect_to_server_list(t) ==
  /\ At(t, "c_list")
  /\ UNCHANGED nclients
  /\ \/ /\ ChannelUp(tasks[t].self)
        /\ client_instance # NoClient
        /\ IF clients[client_instance].session
             THEN Update(t, [tasks[t] EXCEPT !.pc = "c_list2",
                                             !.self = client_instance],
                         client_instance, clients)
             ELSE Update(t, Finished(tasks[t], [kind |-> "ok"]),
                         client_instance, clients)
     \/ \* list_tools raises, or client_instance is None (AttributeError)
        ConnectExcept(t, clients)

\* api_server.py:79-91
connect_to_server_list2(t) ==
  /\ At(t, "c_list2")
  /\ UNCHANGED nclients
  /\ \/ /\ ChannelUp(tasks[t].self)
        /\ Update(t, Finished(tasks[t], [kind |-> "ok"]),
                  client_instance, clients)
     \/ ConnectExcept(t, clients)

\* api_server.py:96-102 once cleanup() is over: when it returned, the global
\* is reset and the HTTP error raised; when it raised, its exception leaves
\* the handler and the global stays.
ConnectCleanupOutcome(t, raised, cl) ==
  IF raised
    THEN Update(t, Finished([tasks[t] EXCEPT !.raised = TRUE],
                            [kind |-> "raise"]),
                client_instance, cl)
    ELSE Update(t, Finished(tasks[t], [kind |-> "http500"]), NoClient, cl)

connect_to_server_cleanup(t) ==
  /\ At(t, "c_cleanup")
  /\ UNCHANGED nclients
  /\ \E raised \in BOOLEAN :
       ConnectCleanupOutcome(t, raised,
                             [clients EXCEPT ![tasks[t].self] = cleanup(@)])

\* ---------------------------------------------------------- disconnect
\* The disconnect handler without its try/except around cleanup().
DisconnectOutcome_NoTry(t, raised, cl) ==
  Update(t, Finished([tasks[t] EXCEPT !.op = "disconnect", !.raised = raised],
                     IF raised THEN [kind |-> "raise"]
                     ELSE [kind |-> "ok", success |-> TRUE]),
         NoClient, cl)

\* api_server.py:112-117: whether cleanup() returned or raised, the finally
\* clause resets the global and success is returned.
DisconnectOutcome(t, raised, cl) ==
  Update(t, Finished([tasks[t] EXCEPT !.op = "disconnect", !.raised = raised],
                     [kind |-> "ok", success |-> TRUE]),
         NoClient, cl)

\* api_server.py:104-111: with a client, cleanup() is awaited inside try.
disconnect_from_server_begin(t) ==
  /\ FirstIdle(t)
  /\ UNCHANGED nclients
  /\ IF client_instance # NoClient /\ HasOpen(client_instance)
       THEN Update(t, [IdleTask EXCEPT !.op = "disconnect", !.pc = "d_cleanup",
                                       !.self = client_instance],
                   client_instance, clients)
       ELSE DisconnectOutcome(t, FALSE, clients)

disconnect_from_server_cleanup(t) ==
  /\ At(t, "d_cleanup")
  /\ UNCHANGED nclients
  /\ \E raised \in BOOLEAN :
       DisconnectOutcome(t, raised,
                         [clients EXCEPT ![tasks[t].self] = cleanup(@)])

\* --------------------------------------------------------------- query
\* str(x) and the {x} of an f-string
Str(x) == <<"str", x>>

\* The tool-call path logging the result before the action that produced it.
ToolCallEntries_ResultFirst(query, tool_name, tool_args, result) ==
  << <<"User: ", query>>,
     <<"Result: ", Str(result)>>,
     <<"Assistant: Executed ", tool_name, " with args ", Str(tool_args)>> >>

\* The tool-call path with the Result line forgotten.
ToolCallEntries_NoResult(query, tool_name, tool_args, result) ==
  << <<"User: ", query>>,
     <<"Assistant: Executed ", tool_name, " with args ", Str(tool_args)>> >>

\* client.py:175-177: the three Ledger lines of a tool call
ToolCallEntries(query, tool_name, tool_args, result) ==
  << <<"User: ", query>>,
     <<"Assistant: Executed ", tool_name, " with args ", Str(tool_args)>>,
     <<"Result: ", Str(result)>> >>

\* client.py:181  the Ledger line written before response.text is read
UserEntry(query) == <<"User: ", query>>

\* client.py:182
AssistantEntry(text) == <<"Assistant: ", text>>

\* client.py:182,184  response.text of google.generativeai: raises ValueError
\* when the response has no part or a part that is not text; a single text
\* part is returned; several text parts are joined or refused, by version.
TextOutcomes(parts) ==
  IF parts = <<>> \/ \E i \in 1..Len(parts) : parts[i] # NoTool
    THEN {"raise"}
    ELSE IF Len(parts) = 1 THEN {"ok"} ELSE {"ok", "raise"}

\* client.py:160-168: the parts whose function_call.name is the name of a
\* catalog tool.  Every part has the attribute function_call; the name of a
\* text part matches no tool.
Matching(parts, mcp_tools) ==
  {i \in 1..Len(parts) : parts[i] \in Names(mcp_tools)}

\* client.py:160-170: the first of them in order is dispatched (0: none)
FirstMatch(parts, mcp_tools) ==
  IF Matching(parts, mcp_tools) = {} THEN 0
  ELSE CHOOSE i \in Matching(parts, mcp_tools) :
         \A j \in Matching(parts, mcp_tools) : i <= j

\* A function-call part naming a tool the catalog does not hold.
NamesUnknownTool(parts, mcp_tools) ==
  \E i \in 1..Len(parts) : parts[i] \in ToolNames \ Names(mcp_tools)

\* The query handler without its try/except: the exception leaves it.
QueryFailure_Raise(tk) == Finished(tk, [kind |-> "raise"])

\* api_server.py:142-147: what the facade returns when
\* client.process_query raised
QueryFailure(tk) ==
  Finished(tk, [kind |-> "fail", success |-> FALSE, response |-> <<>>])

\* api_server.py:137-140
QuerySuccess(tk, response) ==
  Finished(tk, [kind |-> "ok", success |-> TRUE, response |-> response])

\* The query handler without its check for a client: None has no
\* process_query, and the AttributeError is raised outside the try.
NoClientResponse_Crash(tk) == Finished(tk, [kind |-> "raise"])

\* api_server.py:124-128: the facade's answer when there is no client
NoClientResponse(tk) == Finished(tk, [kind |-> "http400"])

\* The session the global leads to cannot answer: there is no client, the
\* client has no session, or its process or session is not open.
NoUsableSession ==
  \/ client_instance = NoClient
  \/ ~clients[client_instance].session
  \/ ~ChannelUp(client_instance)

\* api_server.py:124-135 and client.py:78-84: no client raises HTTP 400; a
\* client without session raises ValueError inside the try; otherwise
\* list_tools() is sent.
process_query_begin(t) ==
  /\ FirstIdle(t)
  /\ UNCHANGED nclients
  /\ LET tk == [IdleTask EXCEPT
                  !.op = "query", !.query = QueryText[t],
                  !.self = client_instance, !.pre = NoUsableSession]
     IN  IF client_instance = NoClient
           THEN Update(t, NoClientResponse(tk), client_instance, clients)
           ELSE /\ Len(clients[client_instance].conversation_history)
                     < MaxLedger
                /\ IF ~clients[client_instance].session
                     THEN Update(t, QueryFailure(tk), client_instance, clients)
                     ELSE Update(t, [tk EXCEPT !.pc = "q_list"],
                                 client_instance, clients)

\* The fallback table with the parameters of login left optional.
Parameters_LoginOptional(name) ==
  IF name = "login"
    THEN [properties |-> {<<"username", "string">>, <<"password", "string">>},
          required |-> {}]
  ELSE IF name = "get_products"
    THEN [properties |-> {<<"page", "integer">>, <<"limit", "integer">>},
          required |-> {}]
  ELSE [properties |-> {}, required |-> {}]

\* client.py:89-126: the parameters declared for a tool, chosen by its name
\* alone (the provider's own schema is never read): properties as
\* (name, type) pairs, and the required names.
Parameters(name) ==
  IF name = "login"
    THEN [properties |-> {<<"username", "string">>, <<"password", "string">>},
          required |-> {"username", "password"}]
  ELSE IF name = "get_products"
    THEN [properties |-> {<<"page", "integer">>, <<"limit", "integer">>},
          required |-> {}]
  ELSE [properties |-> {}, required |-> {}]

\* client.py:87-134: one declaration is appended per catalog tool, in
\* catalog order; no name is looked up among those already appended.
FunctionDeclarations(mcp_tools) ==
  [i \in 1..Len(mcp_tools) |->
     [name |-> mcp_tools[i].name, description |-> mcp_tools[i].description,
      parameters |-> Parameters(mcp_tools[i].name)]]

\* client.py:83-156: the catalog arrives, the declarations are built and the
\* model is called; a raising list_tools fails the query.
process_query_list(t) ==
  /\ At(t, "q_list")
  /\ UNCHANGED nclients
  /\ \/ /\ ChannelUp(tasks[t].self)
        /\ \E cat \in Catalogs :
             Update(t, [tasks[t] EXCEPT !.pc = "q_model", !.mcp_tools = cat,
                                        !.function_declarations =
                                          FunctionDeclarations(cat),
                                        !.nModel = @ + 1],
                    client_instance, clients)
     \/ Update(t, QueryFailure(tasks[t]), client_instance,
               RequestRaised(tasks[t].self))

\* client.py:83-156 on a provider whose listing holds one name twice: the
\* same loop runs over the listing as it came.
process_query_list_colliding(t) ==
  /\ At(t, "q_list")
  /\ UNCHANGED nclients
  /\ ChannelUp(tasks[t].self)
  /\ \E cat \in CollidingCatalogs :
       Update(t, [tasks[t] EXCEPT !.pc = "q_model", !.mcp_tools = cat,
                                  !.function_declarations =
                                    FunctionDeclarations(cat),
                                  !.nModel = @ + 1],
              client_instance, clients)

\* client.py:170-173: call_tool is sent for the part found
Dispatch(tk, tool_name) ==
  [tk EXCEPT !.pc = "q_call", !.tool_name = tool_name, !.nCall = @ + 1]

\* A dispatch that writes the User line before it awaits the tool's reply.
SendCall_LogsUser(t, tk, tool_name) ==
  Update(t, Dispatch(tk, tool_name), client_instance,
         [clients EXCEPT ![tk.self].conversation_history =
            Append(@, UserEntry(tk.query))])

\* client.py:170-174: the handler suspends in call_tool with the Ledger as
\* it was; the lines of the query are written after the reply.
SendCall(t, tk, tool_name) ==
  Update(t, Dispatch(tk, tool_name), client_instance, clients)

\* client.py:158-184 up to the next await: the parts are scanned; the first
\* one naming a catalog tool is dispatched; with none, the User line is
\* appended, then response.text is read and the Assistant line appended.
ScanParts(t, parts) ==
  LET tk == [tasks[t] EXCEPT
               !.badCall = NamesUnknownTool(parts, tasks[t].mcp_tools)]
      c == tk.self
      i == FirstMatch(parts, tk.mcp_tools)
  IN  IF i # 0
        THEN SendCall(t, tk, parts[i])
        ELSE \E out \in TextOutcomes(parts) :
               IF out = "ok"
                 THEN Update(t, QuerySuccess(tk, ModelText), client_instance,
                        [clients EXCEPT ![c].conversation_history =
                           @ \o <<UserEntry(tk.query),
                                  AssistantEntry(ModelText)>>])
                 ELSE Update(t, QueryFailure(tk), client_instance,
                        [clients EXCEPT ![c].conversation_history =
                           Append(@, UserEntry(tk.query))])

process_query_model(t) ==
  /\ At(t, "q_model")
  /\ UNCHANGED nclients
  /\ \/ \E parts \in SeqsUpTo(PartNames, MaxParts) : ScanParts(t, parts)
     \/ \* generate_content_async raises
        Update(t, QueryFailure(tasks[t]), client_instance, clients)

\* A dispatch that swallows the error of call_tool and awaits the reply
\* again.
CallToolRaised_AwaitAgain(tk) == tk

\* A dispatch that sends call_tool again when it raised.
CallToolRaised_Retry(tk) == [tk EXCEPT !.nCall = @ + 1]

\* client.py:186-188: call_tool raised; the exception is re-raised
CallToolRaised(tk) == QueryFailure(tk)

\* client.py:170-178: the tool's reply is logged and returned as a string.
process_query_call(t) ==
  /\ At(t, "q_call")
  /\ UNCHANGED nclients
  /\ \/ /\ ChannelUp(tasks[t].self)
        /\ Update(t, QuerySuccess(tasks[t], Str(ToolResult)), client_instance,
             [clients EXCEPT ![tasks[t].self].conversation_history =
                @ \o ToolCallEntries(tasks[t].query, tasks[t].tool_name,
                                     ToolArgs, ToolResult)])
     \/ Update(t, CallToolRaised(tasks[t]), client_instance,
               RequestRaised(tasks[t].self))

\* -------------------------------------------------------- status, tools
\* api_server.py:167-171: the Ledger length is read through the global
LedgerLength ==
  IF client_instance = NoClient THEN 0
  ELSE Len(clients[client_instance].conversation_history)

\* A status handler without the try/except around list_tools.
StatusResult_NoTry(tk, tools) ==
  Finished(tk, IF tk.is_connected /\ tools = <<>>
                 THEN [kind |-> "raise"]
                 ELSE [kind |-> "ok", connected |-> tk.is_connected,
                       tools |-> tools, length |-> LedgerLength])

\* api_server.py:167-171: the answer of status; the Ledger length is read
\* through the global when the answer is built.
StatusResult(tk, tools) ==
  Finished(tk, [kind |-> "ok", connected |-> tk.is_connected,
                tools |-> tools, length |-> LedgerLength])

\* api_server.py:149-157
get_status_begin(t) ==
  /\ FirstIdle(t)
  /\ UNCHANGED nclients
  /\ IF client_instance # NoClient /\ clients[client_instance].session
       THEN Update(t, [IdleTask EXCEPT !.op = "status", !.pc = "s_list",
                                       !.self = client_instance,
                                       !.is_connected = TRUE],
                   client_instance, clients)
       ELSE Update(t, StatusResult([IdleTask EXCEPT !.op = "status"], <<>>),
                   client_instance, clients)

\* api_server.py:158-171: a raising list_tools gives an empty tool list
get_status_list(t) ==
  /\ At(t, "s_list")
  /\ UNCHANGED nclients
  /\ \/ /\ ChannelUp(tasks[t].self)
        /\ \E cat \in Catalogs :
             Update(t, StatusResult(tasks[t], cat), client_instance, clients)
     \/ \* list_tools raises: except Exception, tools = []
        Update(t, StatusResult(tasks[t], <<>>), client_instance,
               RequestRaised(tasks[t].self))

\* api_server.py:173-185
get_available_tools_begin(t) ==
  /\ FirstIdle(t)
  /\ UNCHANGED nclients
  /\ IF client_instance = NoClient \/ ~clients[client_instance].session
       THEN Update(t, Finished([IdleTask EXCEPT !.op = "tools"],
                               [kind |-> "http400"]),
                   client_instance, clients)
       ELSE Update(t, [IdleTask EXCEPT !.op = "tools", !.pc = "t_list",
                                       !.self = client_instance],
                   client_instance, clients)

\* api_server.py:185-196
get_available_tools_list(t) ==
  /\ At(t, "t_list")
  /\ UNCHANGED nclients
  /\ \/ /\ ChannelUp(tasks[t].self)
        /\ Update(t, Finished(tasks[t], [kind |-> "ok"]),
                  client_instance, clients)
     \/ Update(t, Finished(tasks[t], [kind |-> "http500"]),
               client_instance, RequestRaised(tasks[t].self))

\* -------------------------------------------------------- conversation
\* A clear that answers success and leaves the Ledger as it is.
clear_conversation_NoReset(t) ==
  /\ FirstIdle(t)
  /\ UNCHANGED nclients
  /\ Update(t, Finished([IdleTask EXCEPT !.op = "clear",
                                         !.seen = LedgerLength],
                        [kind |-> "ok", success |-> client_instance # NoClient]),
            client_instance, clients)

\* api_server.py:198-207
clear_conversation(t) ==
  /\ FirstIdle(t)
  /\ UNCHANGED nclients
  /\ IF client_instance # NoClient
       THEN Update(t, Finished([IdleTask EXCEPT !.op = "clear",
                                                !.seen = LedgerLength],
                               [kind |-> "ok", success |-> TRUE]),
                   client_instance,
                   [clients EXCEPT
                      ![client_instance].conversation_history = <<>>])
       ELSE Update(t, Finished([IdleTask EXCEPT !.op = "clear"],
                               [kind |-> "ok", success |-> FALSE]),
                   client_instance, clients)

\* api_server.py:213-220: what get_conversation answers in this state
ConversationResult ==
  [kind |-> "ok",
   conversation |->
     IF client_instance = NoClient THEN <<>>
     ELSE clients[client_instance].conversation_history,
   length |-> LedgerLength]

\* api_server.py:209-220
get_conversation(t) ==
  /\ FirstIdle(t)
  /\ UNCHANGED nclients
  /\ Update(t, Finished([IdleTask EXCEPT !.op = "conversation"],
                        ConversationResult),
            client_instance, clients)

\* ------------------------------------------------------------ shutdown
\* api_server.py:229-236: the server stops once no request is in progress;
\* the code after yield cleans up the client the global names, if any.
\* cleanup() of a client holding nothing returns at once.
lifespan_shutdown ==
  /\ lifespan = "serving"
  /\ \A t \in Tasks : tasks[t].pc = "idle"
  /\ lifespan' = IF client_instance # NoClient /\ HasOpen(client_instance)
                   THEN "cleanup" ELSE "stopped"
  /\ UNCHANGED <<client_instance, nclients, clients, tasks>>

\* api_server.py:235-236: cleanup() is over, returned or raised; the global
\* is left as it is and the process ends.
lifespan_cleanup ==
  /\ lifespan = "cleanup"
  /\ clients' = [clients EXCEPT ![client_instance] = cleanup(@)]
  /\ lifespan' = "stopped"
  /\ UNCHANGED <<client_instance, nclients, tasks>>

\* ------------------------------------------------------- specification
\* The caller takes the response; the handler slot is free again.  This
\* happens before the event loop runs another handler.
Return(t) ==
  /\ tasks[t].pc = "done"
  /\ UNCHANGED nclients
  /\ Update(t, IdleTask, client_instance, clients)

\* Any interleaving of the handlers at their awaits.
Next ==
  \/ lifespan_shutdown
  \/ lifespan_cleanup
  \/ \E t \in Tasks :
    \/ connect_to_server_begin(t)
    \/ connect_to_server_stdio(t)
    \/ connect_to_server_init(t)
    \/ connect_to_server_list(t)
    \/ connect_to_server_list2(t)
    \/ connect_to_server_cleanup(t)
    \/ disconnect_from_server_begin(t)
    \/ disconnect_from_server_cleanup(t)
    \/ process_query_begin(t)
    \/ process_query_list(t)
    \/ process_query_model(t)
    \/ process_query_call(t)
    \/ get_status_begin(t)
    \/ get_status_list(t)
    \/ get_available_tools_begin(t)
    \/ get_available_tools_list(t)
    \/ clear_conversation(t)
    \/ get_conversation(t)
    \/ Return(t)

Spec == Init /\ [][Next]_vars

\* ------------------------------------------------------- cancellation
\* The awaits on the provider or the model in connect and query.
CancelPoints ==
  {"c_stdio", "c_init", "c_list", "c_list2", "q_list", "q_model", "q_call"}

\* api_server.py:93 and 142, client.py:63 and 186: asyncio.CancelledError is
\* thrown into the handler at its await.  It is not an Exception, so no
\* except clause of the handler or the client catches it, and there is no
\* finally: nothing is closed, the global stays, no response is produced.
Cancel(t) ==
  /\ tasks[t].pc \in CancelPoints
  /\ At(t, tasks[t].pc)
  /\ UNCHANGED nclients
  /\ LET c == IF tasks[t].op = "connect" THEN tasks[t].own ELSE tasks[t].self
     IN  Update(t, IdleTask, client_instance,
                [clients EXCEPT ![c].abandoned = @ \/ HasOpen(c)])

\* ------------------------------------------------------ broken channel
\* The provider process of client c dies or its pipe closes after the
\* handshake: the channel of the session is broken for good, and every later list_tools or call_tool
\* on it raises (client.py:57, 83, 170; api_server.py:79, 160, 185).  The
\* contexts stay on the exit stack until cleanup().
channel_breaks(c) ==
  /\ ~Undelivered
  /\ ChannelUp(c) /\ clients[c].chan = "ready"
  /\ clients' = [clients EXCEPT ![c].chan = "broken"]
  /\ UNCHANGED <<client_instance, nclients, tasks, lifespan>>

\* Overlapping requests with a provider and a model that always reply or
\* fail in the end, on an event loop that resumes every handler whose await
\* is over and delivers every response.
LiveSpec ==
  /\ Spec
  /\ \A t \in Tasks :
       /\ SF_vars(process_query_list(t))
       /\ SF_vars(process_query_model(t))
       /\ SF_vars(process_query_call(t))
       /\ WF_vars(Return(t))

\* One request at a time: a request arrives only when no handler is running.
Quiet == \A t \in Tasks : ~Running(t)

SeqNext ==
  \/ lifespan_shutdown
  \/ lifespan_cleanup
  \/ \E t \in Tasks :
    \/ Quiet /\ connect_to_server_begin(t)
    \/ connect_to_server_stdio(t)
    \/ connect_to_server_init(t)
    \/ connect_to_server_list(t)
    \/ connect_to_server_list2(t)
    \/ connect_to_server_cleanup(t)
    \/ Quiet /\ disconnect_from_server_begin(t)
    \/ disconnect_from_server_cleanup(t)
    \/ Quiet /\ process_query_begin(t)
    \/ process_query_list(t)
    \/ process_query_model(t)
    \/ process_query_call(t)
    \/ Quiet /\ get_status_begin(t)
    \/ get_status_list(t)
    \/ Quiet /\ get_available_tools_begin(t)
    \/ get_available_tools_list(t)
    \/ Quiet /\ clear_conversation(t)
    \/ Quiet /\ get_conversation(t)
    \/ Return(t)

SeqSpec == Init /\ [][SeqNext]_vars

\* One request at a time, each of which the caller may abandon.
CancelNext ==
  \/ SeqNext
  \/ \E t \in Tasks : Cancel(t)

CancelSpec == Init /\ [][CancelNext]_vars

\* One request at a time, with a provider whose channel may break.
BreakNext ==
  \/ SeqNext
  \/ \E c \in ClientIds : channel_breaks(c)

BreakSpec == Init /\ [][BreakNext]_vars

\* One request at a time, with a provider that may list one name twice.
CollideNext ==
  \/ SeqNext
  \/ \E t \in Tasks : process_query_list_colliding(t)

CollideSpec == Init /\ [][CollideNext]_vars

\* ---------------------------------------------------------- properties
Ledger(c) == clients[c].conversation_history

\* Handler t, of request op, returns in this step.
Returns(t, op) ==
  tasks[t].pc # "done" /\ tasks'[t].pc = "done" /\ tasks'[t].op = op

\* Handler t, of request op, has returned and its response is being taken.
Returned(t, op) == tasks[t].pc = "done" /\ tasks[t].op = op

\* C1: when connect has returned success, the only client that still holds an
\* open subprocess or session is the active one: the session the global led
\* to before was closed.
C1_PriorSessionClosed ==
  \A t \in Tasks :
    Returned(t, "connect") /\ tasks[t].result.kind = "ok"
      => \A c \in ClientIds : HasOpen(c) => c = client_instance

\* C2: no step of a query other than its successful return changes the
\* Ledger, so a query that fails leaves the Ledger as it found it.
C2_AllOrNothingAppend ==
  [][\A t \in Tasks :
       /\ tasks[t].op = "query" /\ Running(t) /\ tasks'[t] # tasks[t]
       /\ ~(tasks'[t].pc = "done" /\ tasks'[t].result.kind = "ok")
       => clients'[tasks[t].self].conversation_history = Ledger(tasks[t].self)
    ]_vars

\* C3: the step in which a query returns success appends exactly three lines
\* to the Ledger of its client when it dispatched a tool call and exactly two
\* when it did not (the Ledger of a client nothing refers to any more cannot
\* be read).
C3_LedgerGrowth ==
  [][\A t \in Tasks :
       /\ Returns(t, "query") /\ tasks'[t].result.kind = "ok"
       /\ Referenced(tasks[t].self, client_instance', tasks')
       => Len(clients'[tasks[t].self].conversation_history)
            = Len(Ledger(tasks[t].self))
              + (IF tasks[t].pc = "q_call" THEN 3 ELSE 2)
    ]_vars

C3_Witness ==
  \E t \in Tasks :
    /\ Returned(t, "query") /\ tasks[t].result.kind = "ok"
    /\ tasks[t].nCall = 1
    /\ client_instance # NoClient /\ Len(Ledger(client_instance)) = 3

\* C4: a query whose model response names a tool outside the catalog never
\* sends call_tool and does not return success.
C4_UnknownToolRejected ==
  \A t \in Tasks :
    tasks[t].badCall =>
      /\ tasks[t].nCall = 0
      /\ tasks[t].pc = "done" => tasks[t].result.kind = "fail"

\* C5: a query that arrives when the global leads to no usable session (no
\* client, a client without session, a closed one) never calls the model,
\* returns a failure (the structured one or HTTP 400) and not an unhandled
\* exception, and no step of it changes a Ledger.
C5_QueryWithoutSession ==
  [][\A t \in Tasks :
       tasks'[t].op = "query" /\ tasks'[t].pre /\ tasks'[t] # tasks[t]
       => /\ tasks'[t].pc \in {"q_list", "done"}
          /\ tasks'[t].nModel = 0
          /\ tasks'[t].pc = "done"
               => tasks'[t].result.kind \in {"fail", "http400"}
          /\ \A c \in ClientIds :
               Referenced(c, client_instance', tasks')
                 => clients'[c].conversation_history = Ledger(c)
    ]_vars

\* a query answered with a failure by a client whose connect had failed
C5_Witness ==
  \E t \in Tasks :
    /\ Returned(t, "query") /\ tasks[t].pre
    /\ tasks[t].result.kind = "fail"
    /\ client_instance # NoClient /\ clients[client_instance].session

C7_FailedConnectCleansUp ==
  [][\A t \in Tasks :
       Returns(t, "connect") /\ tasks'[t].result.kind # "ok"
       => /\ ~HasOpenIn(clients', tasks[t].own)
          /\ client_instance' # NoClient
               => ~clients'[client_instance'].session
    ]_vars

\* C8: disconnect always returns the same success result, whatever the state
\* and whether or not cleanup() raised, and the global names no client when
\* it has returned.
C8_DisconnectIdempotent ==
  \A t \in Tasks :
    Returned(t, "disconnect")
      => /\ tasks[t].result = [kind |-> "ok", success |-> TRUE]
         /\ client_instance = NoClient

\* a disconnect whose cleanup() raised
C8_Witness ==
  \E t \in Tasks : Returned(t, "disconnect") /\ tasks[t].raised

\* C9: a query calls the model at most once and sends call_tool at most once,
\* never before the model call; a query that returned success called the
\* model exactly once.
C9_OneRoundTrip ==
  \A t \in Tasks :
    /\ tasks[t].nModel <= 1
    /\ tasks[t].nCall <= tasks[t].nModel
    /\ Returned(t, "query") /\ tasks[t].result.kind = "ok"
         => tasks[t].nModel = 1

\* a response with a call to an unknown tool and a call to a catalog tool:
\* one call_tool was sent
C9_Witness ==
  \E t \in Tasks :
    Returned(t, "query") /\ tasks[t].badCall /\ tasks[t].nCall = 1

\* The handlers awaiting a list_tools or call_tool reply from client c, and
\* those awaiting the model on its behalf.
TransportAwaits == {"c_list", "c_list2", "q_list", "q_call", "s_list", "t_list"}

InFlight(c) ==
  {t \in Tasks : tasks[t].self = c /\ tasks[t].pc \in TransportAwaits}

ModelCalls(c) == {t \in Tasks : tasks[t].self = c /\ tasks[t].pc = "q_model"}

\* C10: at most one list_tools/call_tool request is in flight on a session,
\* and at most one model call is outstanding for it.
C10_NoPipelining ==
  \A c \in ClientIds :
    Cardinality(InFlight(c)) <= 1 /\ Cardinality(ModelCalls(c)) <= 1

\* The Ledger a caller sees through status and conversation.
ObservedLedger ==
  IF client_instance = NoClient THEN <<>> ELSE Ledger(client_instance)

IsPrefix(s, u) == Len(s) <= Len(u) /\ SubSeq(u, 1, Len(s)) = s

\* C11: except in the step of a clear, the Ledger seen through the facade
\* only grows: what it held stays, in place, as a prefix of what it holds
\* next.
C11_LedgerAppendOnly ==
  [][(\A t \in Tasks : ~Returns(t, "clear"))
       => IsPrefix(ObservedLedger, ObservedLedger')]_vars

\* Some operation of the facade can still close what client c holds: the
\* global names c (disconnect, a failing connect and shutdown close what the
\* global names), or a cleanup() of c is under way.
Closable(c) ==
  \/ c = client_instance
  \/ \E t \in Tasks : tasks[t].pc \in {"c_cleanup", "d_cleanup"}
                      /\ tasks[t].self = c

\* C12: after a connect or a query was cancelled at an await, whatever the
\* client it worked on still holds open can be closed by a later operation.
C12_CancellationSafety ==
  \A c \in ClientIds : clients[c].abandoned /\ HasOpen(c) => Closable(c)

\* C13: when call_tool has replied, the query returns the reply as a string,
\* and the Ledger of its client ends with the User line of this query, the
\* Assistant line naming the tool and its arguments, and the Result line
\* holding the same string as the response.
C13_ToolCallResultAndTail ==
  [][\A t \in Tasks :
       /\ Returns(t, "query") /\ tasks[t].pc = "q_call"
       /\ tasks'[t].result.kind = "ok"
       /\ Referenced(tasks[t].self, client_instance', tasks')
       => LET L == clients'[tasks[t].self].conversation_history
              n == Len(L)
          IN  /\ tasks'[t].result.response = <<"str", ToolResult>>
              /\ n >= 3
              /\ L[n - 2] = <<"User: ", tasks[t].query>>
              /\ L[n - 1] = <<"Assistant: Executed ", tasks[t].tool_name,
                              " with args ", <<"str", ToolArgs>> >>
              /\ L[n] = <<"Result: ", tasks'[t].result.response>>
    ]_vars

\* a query answered with the result of the tool login
C13_Witness ==
  \E t \in Tasks :
    /\ Returned(t, "query") /\ tasks[t].result.kind = "ok"
    /\ tasks[t].nCall = 1
    /\ tasks[t].result.response = <<"str", ToolResult>>
    /\ client_instance # NoClient
    /\ LET L == Ledger(client_instance)
       IN  /\ Len(L) >= 3
           /\ L[Len(L)][1] = "Result: "
           /\ L[Len(L) - 1][2] = "login"

\* The declarations handed to the model by the queries awaiting it.
Declared ==
  UNION {Range(tasks[t].function_declarations) :
           t \in {u \in Tasks : tasks[u].pc = "q_model"}}

LoginParameters ==
  [properties |-> {<<"username", "string">>, <<"password", "string">>},
   required |-> {"username", "password"}]

NoParameters == [properties |-> {}, required |-> {}]

\* C14 as stated: the tool login is declared with exactly the required
\* strings username and password, and a tool of any other name with no
\* parameter.
C14_SchemaFallback ==
  \A d \in Declared :
    d.parameters = IF d.name = "login" THEN LoginParameters ELSE NoParameters

\* C14 amended: login is declared with exactly the required strings username
\* and password, get_products with the two optional integers page and limit,
\* and a tool of any other name with no parameter.
C14_SchemaFallbackTable ==
  \A d \in Declared :
    d.parameters =
      IF d.name = "login" THEN LoginParameters
      ELSE IF d.name = "get_products"
        THEN [properties |-> {<<"page", "integer">>, <<"limit", "integer">>},
              required |-> {}]
      ELSE NoParameters

\* a model call whose declarations hold login and a tool outside the table
C14_Witness ==
  /\ \E d \in Declared : d.name = "login"
  /\ \E d \in Declared :
       d.name = "list_all_students" /\ d.parameters = NoParameters

\* A cleanup() awaited by handler t is over in this step.
CleanupEnds(t) ==
  tasks[t].pc \in {"c_cleanup", "d_cleanup"} /\ tasks'[t].pc = "done"

\* What client c holds is as it was, in clients cl.
SameResources(cl, c) ==
  cl[c].transport = clients[c].transport /\ cl[c].chan = clients[c].chan

\* C15: cleanup() leaves nothing of its client open and touches nothing that
\* was not open; on a client whose connect failed partway it ends without
\* error; on a client that holds nothing (never opened, already closed) it
\* ends at once, without error, and changes nothing.
C15_CloseIdempotent ==
  [][\A t \in Tasks :
       /\ CleanupEnds(t)
            => LET c == tasks[t].self
               IN  /\ ~HasOpenIn(clients', c)
                   /\ clients[c].transport # "open"
                        => clients'[c].transport = clients[c].transport
                   /\ clients[c].chan \notin {"open", "ready"}
                        => clients'[c].chan = clients[c].chan
       /\ tasks[t].pc = "c_cleanup" /\ tasks'[t].pc = "done"
            => ~tasks'[t].raised
       /\ tasks[t].pc = "idle" /\ Returns(t, "disconnect")
            => /\ ~tasks'[t].raised
               /\ \A c \in ClientIds : SameResources(clients', c)
    ]_vars

EmptyConversation == [kind |-> "ok", conversation |-> <<>>, length |-> 0]

\* C16: when clear has returned, and when its response has been taken, a
\* get_conversation answers the empty sequence and length 0.
C16_ClearThenGet ==
  [][\A t \in Tasks :
       Returned(t, "clear")
         => /\ ConversationResult = EmptyConversation
            /\ ConversationResult' = EmptyConversation
    ]_vars

\* a clear that found a Ledger with entries
C16_Witness ==
  \E t \in Tasks :
    Returned(t, "clear") /\ tasks[t].result.success /\ tasks[t].seen > 0

\* What a client is, apart from the note kept for cancellations.
ClientState(cl, c) ==
  <<cl[c].session, cl[c].transport, cl[c].chan, cl[c].conversation_history>>

\* C17: no step of a status handler changes the global, and none changes the
\* session, the resources or the Ledger of a client still in use; status
\* always returns its answer and never raises.
C17_StatusReadOnly ==
  [][\A t \in Tasks :
       tasks'[t].op = "status" /\ tasks'[t] # tasks[t]
       => /\ client_instance' = client_instance
          /\ \A c \in ClientIds :
               Referenced(c, client_instance', tasks')
                 => ClientState(clients', c) = ClientState(clients, c)
          /\ tasks'[t].pc = "done" => tasks'[t].result.kind = "ok"
    ]_vars

\* status answered connected although list_tools raised
C17_Witness ==
  \E t \in Tasks :
    /\ Returned(t, "status")
    /\ tasks[t].result.connected /\ tasks[t].result.tools = <<>>

\* C18: once the app has shut down, no client holds an open subprocess or
\* session.
C18_ShutdownClosesSession ==
  lifespan = "stopped" => \A c \in ClientIds : ~HasOpen(c)

\* A request on the session the global leads to has raised because its
\* channel had broken, and the session was not cleaned up since.
BrokenSession ==
  /\ client_instance # NoClient
  /\ clients[client_instance].failed
  /\ clients[client_instance].transport = "open"

\* C19: once a request on the active session has failed on a broken channel,
\* a status that arrives answers not connected, and a query that arrives
\* fails, both without sending a request on the session.
C19_BrokenSessionUnusable ==
  [][\A t \in Tasks :
       /\ BrokenSession
       /\ tasks[t].pc = "idle" /\ tasks'[t].op \in {"status", "query"}
       => /\ tasks'[t].pc = "done"
          /\ tasks'[t].op = "status" => ~tasks'[t].result.connected
          /\ tasks'[t].op = "query" => tasks'[t].result.kind = "fail"
    ]_vars

\* C20: every query that has started returns, with an answer or a failure.
C20_QueryTerminates ==
  \A t \in Tasks :
    (tasks[t].op = "query" /\ Running(t)) ~> Returned(t, "query")

\* a query that failed in its last step, the tool call
C20_Witness ==
  \E t \in Tasks :
    /\ Returned(t, "query") /\ tasks[t].result.kind = "fail"
    /\ tasks[t].nCall = 1

\* The last tool of a listing that has the name n.
LastNamed(mcp_tools, n) ==
  mcp_tools[CHOOSE i \in 1..Len(mcp_tools) :
              /\ mcp_tools[i].name = n
              /\ \A j \in 1..Len(mcp_tools) :
                   mcp_tools[j].name = n => j <= i]

\* C21: the declarations handed to the model hold one entry for every name
\* of the listing, and it is the entry of the last tool listed under that
\* name.
C21_LaterEntryOverrides ==
  \A t \in Tasks :
    tasks[t].pc = "q_model" =>
      LET d == tasks[t].function_declarations
          m == tasks[t].mcp_tools
      IN  \A n \in Names(m) :
            /\ Cardinality({i \in 1..Len(d) : d[i].name = n}) = 1
            /\ \A i \in 1..Len(d) :
                 d[i].name = n =>
                   d[i].description = LastNamed(m, n).description

\* The resources of every client but c are as they were.
OthersUntouched(c) ==
  \A o \in ClientIds \ {c} :
    /\ clients'[o].transport = clients[o].transport
    /\ clients'[o].chan = clients[o].chan

\* C22: a connect that fails cleans up the client it created itself, resets
\* the global only when the global is that client, closes nothing of another
\* client, and returns with nothing of its own client open.
C22_FailedConnectOwnAttempt ==
  [][\A t \in Tasks :
       (tasks[t].op = "connect" /\ Running(t)) =>
         /\ tasks'[t].pc = "c_cleanup" => tasks'[t].self = tasks[t].own
         /\ (tasks'[t].pc = "done" /\ tasks'[t].result.kind # "ok") =>
              /\ client_instance' # client_instance =>
                   client_instance = tasks[t].own
              /\ OthersUntouched(tasks[t].own)
              /\ ~HasOpenIn(clients', tasks[t].own)]_vars

\* the awaits in which a request of query, status or tools is with the
\* provider
RequestAwaits == {"q_list", "q_call", "s_list", "t_list"}

\* The session of client c has completed its handshake and is not closed.
Ready(c) == clients[c].transport = "open" /\ clients[c].chan = "ready"

\* Handler t sends a list_tools or call_tool request in this step.
Issues(t) ==
  tasks'[t].pc \in RequestAwaits /\ tasks'[t].pc # tasks[t].pc

\* C23: query, status and tools send list_tools/call_tool only on a session
\* whose handshake is complete and that is not closed; a query that arrives
\* while the client's session is in any other state fails without sending.
C23_RequestsOnlyOnReady ==
  [][\A t \in Tasks :
       /\ Issues(t) => Ready(tasks'[t].self)
       /\ ( /\ tasks[t].pc = "idle" /\ tasks'[t].op = "query"
            /\ client_instance # NoClient /\ ~Ready(client_instance) )
            => /\ tasks'[t].pc = "done"
               /\ tasks'[t].result.kind \in {"fail", "http400"}
    ]_vars

\* What client c's Ledger holds in the next state beyond what it holds now.
Appended(c) ==
  SubSeq(clients'[c].conversation_history, Len(Ledger(c)) + 1,
         Len(clients'[c].conversation_history))

\* The lines of one query with text q, in order: the User line, then the
\* Assistant line, then the Result line of a tool call.
QueryBlock(b, q) ==
  /\ Len(b) \in 1..3
  /\ b[1] = UserEntry(q)
  /\ Len(b) = 2 => b[2][1] = "Assistant: "
  /\ Len(b) = 3 => b[2][1] = "Assistant: Executed " /\ b[3][1] = "Result: "

\* C24: whatever a query writes to the Ledger it writes in the one step in
\* which it returns, behind everything the Ledger held, as User, Assistant
\* and Result lines in this order; so no line of another query stands between
\* the lines of one query.  (A Ledger is emptied only by clear.)
C24_QueryEntriesContiguous ==
  [][\A c \in ClientIds :
       ( /\ Referenced(c, client_instance', tasks')
         /\ clients'[c].conversation_history # Ledger(c) )
       => \/ \E t \in Tasks :
               /\ Returns(t, "clear")
               /\ clients'[c].conversation_history = <<>>
          \/ \E t \in Tasks :
               /\ Returns(t, "query") /\ tasks[t].self = c
               /\ IsPrefix(Ledger(c), clients'[c].conversation_history)
               /\ QueryBlock(Appended(c), tasks[t].query)
               /\ Len(Appended(c)) >= 2 \/ tasks'[t].result.kind = "fail"
    ]_vars

\* two queries that overlapped on one client have both written: the Ledger
\* holds the two lines of one and then the three lines of the other
C24_Witness ==
  \E c \in ClientIds :
    LET L == Ledger(c)
    IN  /\ Len(L) = 5
        /\ L[1][1] = "User: " /\ L[2][1] = "Assistant: "
        /\ L[3][1] = "User: " /\ L[3][2] # L[1][2]
        /\ L[4][1] = "Assistant: Executed " /\ L[5][1] = "Result: "

====
